---- MODULE Spec2Model ----
(***************************************************************************)
(* bevy_simple_menu: a main menu and a controls menu driven by the engine's *)
(* stack of game states.  The model follows the systems of                  *)
(* menus/main_menu.rs, menus/controls_menu.rs and camera.rs, the            *)
(* registration table of menus/mod.rs and the start-up of main.rs.  The     *)
(* engine's State<GameState> stack, its UI focus system and its run loop    *)
(* are not part of the repository; they follow sections 4.1, 3 and 6 of the *)
(* specification.                                                           *)
(***************************************************************************)
EXTENDS Integers, Sequences, FiniteSets, TLC

\* Number of frames the run loop is followed for.
MaxFrames == 7
\* Deepest state stack explored when the stack API is driven directly.
MaxDepth == 5

VARIABLES
    stack,            \* State<GameState>: the state stack, top last
    world,            \* the entities of the World (the UI scene graph)
    clear_color,      \* the ClearColor resource
    app_exit_events,  \* number of AppExit events sent
    error,            \* result of the last push / pop ("none" = Ok)
    lastOp,           \* the last stack operation called
    panicked,         \* an unwrap() hit an Err: the process aborted
    fired,            \* lifecycle transitions run by the last step, in order
    visited,          \* tags of the buttons the last update iterated, in order
    live,             \* states entered or resumed and not yet paused or exited
    pc,               \* position of the run loop
    frame             \* frames started so far

vars == <<stack, world, clear_color, app_exit_events, error, lastOp,
          panicked, fired, visited, live, pc, frame>>

(***************************************************************************)
(* Data                                                                    *)
(***************************************************************************)

\* crate::states::GameState
GameState == {"MainMenu", "ControlMenu", "MainGame"}

\* pub enum MenuItem
MenuItem == {"Play", "Controls", "Exit"}

\* bevy::ui::Interaction
Interaction == {"Clicked", "Hovered", "None"}

\* Value of a component the entity does not carry.
Absent == "-"

\* An entity: its id, its Parent, the bundle it was spawned from, the marker
\* or tag inserted on it, its Text, its Interaction and Visible.is_visible.
Entity(id, parent, bundle, tag, text, interaction, is_visible) ==
    [id |-> id, parent |-> parent, bundle |-> bundle, tag |-> tag,
     text |-> text, interaction |-> interaction, is_visible |-> is_visible]

\* The id the next spawn gets: the first one no live entity has.
FreeId(w) ==
    CHOOSE n \in 1..(Cardinality(w) + 1) :
        /\ \A e \in w : e.id # n
        /\ \A m \in 1..(n - 1) : \E e \in w : e.id = m

Top(s) == s[Len(s)]

(***************************************************************************)
(* camera.rs                                                               *)
(***************************************************************************)

spawn_ui_camera(w) ==
    w \cup {Entity(FreeId(w), 0, "UiCameraBundle", Absent, Absent, Absent, TRUE)}

(***************************************************************************)
(* menus/main_menu.rs: building and tearing down the main menu             *)
(***************************************************************************)

\* The text of a main menu button (the match on menu_item).
ButtonText(menu_item) ==
    CASE menu_item = "Play" -> "Play"
      [] menu_item = "Controls" -> "Controls"
      [] menu_item = "Exit" -> "Exit"

\* A ButtonBundle tagged with the menu item, with one TextBundle child.
spawn_button(w, parent, menu_item) ==
    LET b == FreeId(w)
        w1 == w \cup {Entity(b, parent, "ButtonBundle", menu_item, Absent, "None", TRUE)}
    IN  w1 \cup {Entity(FreeId(w1), b, "TextBundle", Absent, ButtonText(menu_item), Absent, TRUE)}

\* The root NodeBundle marked MainMenu (hidden), the title, the three buttons.
MainMenuTree(w) ==
    LET root == FreeId(w)
        w1 == w \cup {Entity(root, 0, "NodeBundle", "MainMenu", Absent, Absent, FALSE)}
        w2 == w1 \cup {Entity(FreeId(w1), root, "TextBundle", Absent, "Bevy Simple Menu", Absent, TRUE)}
        w3 == spawn_button(w2, root, "Play")
        w4 == spawn_button(w3, root, "Controls")
    IN  spawn_button(w4, root, "Exit")

\* The ids of the entities `ids` and of all their descendants.
RECURSIVE Descendants(_, _)
Descendants(w, ids) ==
    LET next == ids \cup {e.id : e \in {c \in w : c.parent \in ids}}
    IN  IF next = ids THEN ids ELSE Descendants(w, next)

\* commands.entity(entity).despawn_recursive() for every entity of `roots`.
despawn_recursive(w, roots) ==
    {e \in w : e.id \notin Descendants(w, roots)}

\* Query<Entity, With<MainMenu>>
MainMenuRoots(w) == {e.id : e \in {r \in w : r.tag = "MainMenu"}}

(***************************************************************************)
(* menus/controls_menu.rs: building and tearing down the controls menu     *)
(***************************************************************************)

\* The instructions the controls menu shows.
ControlsText == "Use \"WASD\" to move and \"E\" to interact with things."

\* The root NodeBundle marked ControlMenu (hidden), the text, the Back button.
ControlMenuTree(w) ==
    LET root == FreeId(w)
        w1 == w \cup {Entity(root, 0, "NodeBundle", "ControlMenu", Absent, Absent, FALSE)}
        w2 == w1 \cup {Entity(FreeId(w1), root, "TextBundle", Absent, ControlsText, Absent, TRUE)}
        b  == FreeId(w2)
        w3 == w2 \cup {Entity(b, root, "ButtonBundle", "BackButton", Absent, "None", TRUE)}
    IN  w3 \cup {Entity(FreeId(w3), b, "TextBundle", Absent, "Back", Absent, TRUE)}

\* Query<Entity, With<ControlMenu>>
ControlMenuRoots(w) == {e.id : e \in {r \in w : r.tag = "ControlMenu"}}

(***************************************************************************)
(* The systems, as functions of the program state p: a record of the       *)
(* stack, the world and the resources the systems read and write.          *)
(***************************************************************************)

\* clear_color.0 = Color::BLACK, then the spawn of the main menu tree.
setup_main_menu(p) ==
    [p EXCEPT !.clear_color = "BLACK", !.world = MainMenuTree(@)]

teardown_menu_items(p) ==
    [p EXCEPT !.world = despawn_recursive(@, MainMenuRoots(@))]

setup_controls_menu(p) ==
    [p EXCEPT !.world = ControlMenuTree(@)]

\* teardown_controls_menu with despawn() in place of despawn_recursive():
\* only the roots go, their children stay.
teardown_controls_menu_shallow(p) ==
    [p EXCEPT !.world = {e \in @ : e.id \notin ControlMenuRoots(@)}]

teardown_controls_menu(p) ==
    [p EXCEPT !.world = despawn_recursive(@, ControlMenuRoots(@))]

(***************************************************************************)
(* menus/mod.rs: which system each state registers for each lifecycle      *)
(* event ("none" where MenusPlugin registers no system set).               *)
(***************************************************************************)

\* MenusPlugin_build with the on_resume(MainMenu) system set left out.
MenusPlugin_build_noresume(event, state) ==
    CASE event = "on_enter"  /\ state = "MainMenu"    -> "setup_main_menu"
      [] event = "on_update" /\ state = "MainMenu"    -> "handle_menu_item_click"
      [] event = "on_pause"  /\ state = "MainMenu"    -> "teardown_menu_items"
      [] event = "on_exit"   /\ state = "MainMenu"    -> "teardown_menu_items"
      [] event = "on_enter"  /\ state = "ControlMenu" -> "setup_controls_menu"
      [] event = "on_update" /\ state = "ControlMenu" -> "handle_back_button_interaction"
      [] event = "on_exit"   /\ state = "ControlMenu" -> "teardown_controls_menu"
      [] OTHER -> "none"

\* MenusPlugin_build with the on_pause(MainMenu) system set left out.
MenusPlugin_build_nopause(event, state) ==
    CASE event = "on_enter"  /\ state = "MainMenu"    -> "setup_main_menu"
      [] event = "on_resume" /\ state = "MainMenu"    -> "setup_main_menu"
      [] event = "on_update" /\ state = "MainMenu"    -> "handle_menu_item_click"
      [] event = "on_exit"   /\ state = "MainMenu"    -> "teardown_menu_items"
      [] event = "on_enter"  /\ state = "ControlMenu" -> "setup_controls_menu"
      [] event = "on_update" /\ state = "ControlMenu" -> "handle_back_button_interaction"
      [] event = "on_exit"   /\ state = "ControlMenu" -> "teardown_controls_menu"
      [] OTHER -> "none"

\* MenusPlugin_build with the main menu registered outside the state's
\* system sets: its click handler runs in every state and nothing tears the
\* menu down on pause.
MenusPlugin_build_ungated(event, state) ==
    CASE event = "on_enter"  /\ state = "MainMenu"    -> "setup_main_menu"
      [] event = "on_resume" /\ state = "MainMenu"    -> "setup_main_menu"
      [] event = "on_update" /\ state = "ControlMenu" -> "handle_back_button_interaction"
      [] event = "on_update" /\ state # "ControlMenu" -> "handle_menu_item_click"
      [] event = "on_exit"   /\ state = "MainMenu"    -> "teardown_menu_items"
      [] event = "on_enter"  /\ state = "ControlMenu" -> "setup_controls_menu"
      [] event = "on_exit"   /\ state = "ControlMenu" -> "teardown_controls_menu"
      [] OTHER -> "none"

MenusPlugin_build(event, state) ==
    CASE event = "on_enter"  /\ state = "MainMenu"    -> "setup_main_menu"
      [] event = "on_resume" /\ state = "MainMenu"    -> "setup_main_menu"
      [] event = "on_update" /\ state = "MainMenu"    -> "handle_menu_item_click"
      [] event = "on_pause"  /\ state = "MainMenu"    -> "teardown_menu_items"
      [] event = "on_exit"   /\ state = "MainMenu"    -> "teardown_menu_items"
      [] event = "on_enter"  /\ state = "ControlMenu" -> "setup_controls_menu"
      [] event = "on_update" /\ state = "ControlMenu" -> "handle_back_button_interaction"
      [] event = "on_exit"   /\ state = "ControlMenu" -> "teardown_controls_menu"
      [] OTHER -> "none"

(***************************************************************************)
(* The engine's state stack (specification, section 4.1).                  *)
(***************************************************************************)

\* The engine runs the system registered for a lifecycle event of a state.
RunSystem(sys, p) ==
    CASE sys = "setup_main_menu"        -> setup_main_menu(p)
      [] sys = "teardown_menu_items"    -> teardown_menu_items(p)
      [] sys = "setup_controls_menu"    -> setup_controls_menu(p)
      [] sys = "teardown_controls_menu" -> teardown_controls_menu(p)
      [] OTHER -> p

\* One lifecycle transition of state s: its system set runs, and s becomes
\* live (entered, resumed) or stops being live (paused, exited).
Transition(p, event, s) ==
    LET q == RunSystem(MenusPlugin_build(event, s), p)
    IN  [q EXCEPT !.fired = Append(@, <<event, s>>),
                  !.live  = IF event \in {"on_enter", "on_resume"}
                            THEN @ \cup {s} ELSE @ \ {s}]

\* push: the current state is paused and stays on the stack, s is entered.
Push(p, s) ==
    LET p1 == Transition(p, "on_pause", Top(p.stack))
        p2 == [p1 EXCEPT !.stack = Append(@, s)]
        p3 == Transition(p2, "on_enter", s)
    IN  [p3 EXCEPT !.error = "none", !.lastOp = "push"]

\* Pop with the check for a stack of one state left out.
Pop_unchecked(p) ==
    LET p1 == Transition(p, "on_exit", Top(p.stack))
        p2 == [p1 EXCEPT !.stack = SubSeq(@, 1, Len(@) - 1)]
        p3 == IF p2.stack = <<>> THEN p2 ELSE Transition(p2, "on_resume", Top(p2.stack))
    IN  [p3 EXCEPT !.error = "none", !.lastOp = "pop"]

\* pop: fails on a stack of one state; otherwise the top state is exited and
\* removed, and the state now on top is resumed.
Pop(p) ==
    IF Len(p.stack) = 1
    THEN [p EXCEPT !.error = "EmptyStackError", !.lastOp = "pop"]
    ELSE LET p1 == Transition(p, "on_exit", Top(p.stack))
             p2 == [p1 EXCEPT !.stack = SubSeq(@, 1, Len(@) - 1)]
             p3 == Transition(p2, "on_resume", Top(p2.stack))
         IN  [p3 EXCEPT !.error = "none", !.lastOp = "pop"]

(***************************************************************************)
(* The interaction handlers                                                *)
(***************************************************************************)

\* Unwrap with unwrap_err() in place of unwrap(): an Ok aborts the process.
Unwrap_err(p) ==
    IF p.error = "none" THEN [p EXCEPT !.panicked = TRUE] ELSE p

\* .map_err(|err| error!(..)).unwrap(): an Err aborts the process.
Unwrap(p) ==
    IF p.error # "none" THEN [p EXCEPT !.panicked = TRUE] ELSE p

\* menu_item_match with the states of the Play and Controls arms exchanged.
menu_item_match_swapped(p, interaction, item) ==
    IF interaction = "Clicked"
    THEN CASE item = "Play"     -> Unwrap(Push(p, "ControlMenu"))
           [] item = "Controls" -> Unwrap(Push(p, "MainGame"))
           [] item = "Exit"     -> [p EXCEPT !.app_exit_events = @ + 1]
    ELSE p

\* menu_item_match with an Exit arm that sends no AppExit.
menu_item_match_noexit(p, interaction, item) ==
    IF interaction = "Clicked"
    THEN CASE item = "Play"     -> Unwrap(Push(p, "MainGame"))
           [] item = "Controls" -> Unwrap(Push(p, "ControlMenu"))
           [] item = "Exit"     -> p
    ELSE p

\* The closure of handle_menu_item_click, for one (interaction, item).
menu_item_match(p, interaction, item) ==
    IF interaction = "Clicked"
    THEN CASE item = "Play"     -> Unwrap(Push(p, "MainGame"))
           [] item = "Controls" -> Unwrap(Push(p, "ControlMenu"))
           [] item = "Exit"     -> [p EXCEPT !.app_exit_events = @ + 1]
    ELSE p

\* query.for_each over the queried entities in iteration order; a panic
\* ends the iteration.
RECURSIVE MenuItemForEach(_, _)
MenuItemForEach(p, order) ==
    IF order = <<>> \/ p.panicked
    THEN p
    ELSE MenuItemForEach(
             menu_item_match([p EXCEPT !.visited = Append(@, Head(order).tag)],
                             Head(order).interaction, Head(order).tag),
             Tail(order))

IsClicked(e) == e.interaction = "Clicked"

\* handle_menu_item_click that stops at the first Clicked button it meets.
handle_menu_item_click_first(p, order) ==
    LET clicked == SelectSeq(order, IsClicked)
    IN  IF clicked = <<>> THEN p
        ELSE menu_item_match([p EXCEPT !.visited = Append(@, clicked[1].tag)],
                             clicked[1].interaction, clicked[1].tag)

handle_menu_item_click(p, order) == MenuItemForEach(p, order)

\* back_button_match that returns to the main menu by pushing it.
back_button_match_push(p, interaction) ==
    IF interaction = "Clicked" THEN Unwrap(Push(p, "MainMenu")) ELSE p

\* The closure of handle_back_button_interaction, for one interaction.
back_button_match(p, interaction) ==
    IF interaction = "Clicked" THEN Unwrap(Pop(p)) ELSE p

RECURSIVE BackButtonForEach(_, _)
BackButtonForEach(p, order) ==
    IF order = <<>> \/ p.panicked
    THEN p
    ELSE BackButtonForEach(
             back_button_match([p EXCEPT !.visited = Append(@, Head(order).tag)],
                               Head(order).interaction),
             Tail(order))

handle_back_button_interaction(p, order) == BackButtonForEach(p, order)

\* Query<(&Interaction, &MenuItem)> and Query<&Interaction, With<BackButton>>
\* of the update system sys, on world w.
QueryOf(sys, w) ==
    CASE sys = "handle_menu_item_click" ->
             {e \in w : e.tag \in MenuItem /\ e.interaction \in Interaction}
      [] sys = "handle_back_button_interaction" ->
             {e \in w : e.tag = "BackButton" /\ e.interaction \in Interaction}
      [] OTHER -> {}

\* The orders a query may iterate a set of entities in.
Orders(S) ==
    {o \in [1..Cardinality(S) -> S] : \A i, j \in 1..Cardinality(S) : o[i] = o[j] => i = j}

\* The engine runs the update system of the active state.
RunUpdateSystem(sys, p, order) ==
    CASE sys = "handle_menu_item_click"         -> handle_menu_item_click(p, order)
      [] sys = "handle_back_button_interaction" -> handle_back_button_interaction(p, order)
      [] OTHER -> p

(***************************************************************************)
(* The run loop                                                            *)
(***************************************************************************)

\* The program state the systems work on.
Prog ==
    [stack |-> stack, world |-> world, clear_color |-> clear_color,
     app_exit_events |-> app_exit_events, error |-> error, lastOp |-> lastOp,
     panicked |-> panicked, fired |-> fired, visited |-> visited, live |-> live]

Commit(p) ==
    /\ stack' = p.stack
    /\ world' = p.world
    /\ clear_color' = p.clear_color
    /\ app_exit_events' = p.app_exit_events
    /\ error' = p.error
    /\ lastOp' = p.lastOp
    /\ panicked' = p.panicked
    /\ fired' = p.fired
    /\ visited' = p.visited
    /\ live' = p.live

\* main(): the app is built with MainMenu as the starting state; nothing has
\* run yet.
main ==
    [stack |-> <<"MainMenu">>, world |-> {}, clear_color |-> "default",
     app_exit_events |-> 0, error |-> "none", lastOp |-> "none",
     panicked |-> FALSE, fired |-> <<>>, visited |-> <<>>, live |-> {}]

Init ==
    /\ stack = main.stack
    /\ world = main.world
    /\ clear_color = main.clear_color
    /\ app_exit_events = main.app_exit_events
    /\ error = main.error
    /\ lastOp = main.lastOp
    /\ panicked = main.panicked
    /\ fired = main.fired
    /\ visited = main.visited
    /\ live = main.live
    /\ pc = "startup"
    /\ frame = 0

\* The state after app.run() ran the startup system and entered the
\* starting state.
StartupResult(p) ==
    Transition([p EXCEPT !.world = spawn_ui_camera(@), !.fired = <<>>],
               "on_enter", Top(p.stack))

Startup ==
    /\ pc = "startup"
    /\ Commit(StartupResult(Prog))
    /\ pc' = "focus"
    /\ frame' = frame

\* The buttons the UI focus system writes an Interaction to.
Buttons(w) == {e.id : e \in {b \in w : b.interaction \in Interaction}}

SetInteractions(w, f) ==
    {IF e.id \in DOMAIN f THEN [e EXCEPT !.interaction = f[e.id]] ELSE e : e \in w}

\* The engine's UI focus system with one pointer: at most one button is
\* Hovered or Clicked in a frame, every other button is None.
UiFocus ==
    /\ pc = "focus"
    /\ frame < MaxFrames
    /\ \E target \in Buttons(world) \cup {0}, signal \in {"Hovered", "Clicked"} :
          world' = SetInteractions(world,
                      [b \in Buttons(world) |-> IF b = target THEN signal ELSE "None"])
    /\ frame' = frame + 1
    /\ pc' = "update"
    /\ UNCHANGED <<stack, clear_color, app_exit_events, error, lastOp, panicked,
                   fired, visited, live>>

\* Interaction signals with no restriction: any button may carry any signal.
UiFocusMulti ==
    /\ pc = "focus"
    /\ frame < MaxFrames
    /\ \E f \in [Buttons(world) -> Interaction] : world' = SetInteractions(world, f)
    /\ frame' = frame + 1
    /\ pc' = "update"
    /\ UNCHANGED <<stack, clear_color, app_exit_events, error, lastOp, panicked,
                   fired, visited, live>>

\* The update stage of a frame: the update system of the state on top of the
\* stack runs; the run loop ends on a panic or on an AppExit event.
Update ==
    /\ pc = "update"
    /\ LET sys == MenusPlugin_build("on_update", Top(stack))
       IN  \E order \in Orders(QueryOf(sys, world)) :
              LET p == RunUpdateSystem(sys, [Prog EXCEPT !.fired = <<>>, !.visited = <<>>], order)
              IN  /\ Commit(p)
                  /\ pc' = IF p.panicked THEN "panicked"
                           ELSE IF p.app_exit_events > 0 THEN "exited"
                           ELSE "focus"
    /\ frame' = frame

Next == Startup \/ UiFocus \/ Update

Spec == Init /\ [][Next]_vars

NextMulti == Startup \/ UiFocusMulti \/ Update

SpecMulti == Init /\ [][NextMulti]_vars

(***************************************************************************)
(* The stack API driven directly, from the state the start-up leaves.      *)
(***************************************************************************)

InitStack ==
    LET p == StartupResult(main)
    IN  /\ stack = p.stack
        /\ world = p.world
        /\ clear_color = p.clear_color
        /\ app_exit_events = p.app_exit_events
        /\ error = p.error
        /\ lastOp = p.lastOp
        /\ panicked = p.panicked
        /\ fired = p.fired
        /\ visited = p.visited
        /\ live = p.live
        /\ pc = "focus"
        /\ frame = 0

\* A caller pushes state s.
ApiPush ==
    /\ Len(stack) < MaxDepth
    /\ \E s \in GameState : Commit(Push([Prog EXCEPT !.fired = <<>>, !.visited = <<>>], s))
    /\ UNCHANGED <<pc, frame>>

\* A caller pops.
ApiPop ==
    /\ Commit(Pop([Prog EXCEPT !.fired = <<>>, !.visited = <<>>]))
    /\ UNCHANGED <<pc, frame>>

NextStack == ApiPush \/ ApiPop

SpecStack == InitStack /\ [][NextStack]_vars

(***************************************************************************)
(* Properties                                                              *)
(***************************************************************************)

\* The scene-root markers present in the scene graph.
Markers(w) == {e.tag : e \in {r \in w : r.tag \in {"MainMenu", "ControlMenu"}}}

\* The states MenusPlugin registers a scene for.
SceneStates == {s \in GameState : MenusPlugin_build("on_enter", s) # "none"}

\* The tags of the buttons that carry a Clicked signal.
ClickedTags(w) == {e.tag : e \in {b \in w : b.interaction = "Clicked"}}

Children(w, id) == {e \in w : e.parent = id}

\* Button b of w carries tag `tag` and has exactly one child, a text `label`.
IsButton(w, b, tag, label) ==
    /\ b.bundle = "ButtonBundle" /\ b.tag = tag
    /\ Cardinality(Children(w, b.id)) = 1
    /\ \A t \in Children(w, b.id) : t.bundle = "TextBundle" /\ t.text = label

\* w holds exactly one main menu: one hidden root marked MainMenu whose
\* children are the title and the Play, Controls and Exit buttons.
MainMenuBuilt(w) ==
    /\ Cardinality(MainMenuRoots(w)) = 1
    /\ Cardinality({e \in w : e.tag \in MenuItem}) = 3
    /\ \A r \in {e \in w : e.tag = "MainMenu"} :
          /\ r.parent = 0 /\ r.is_visible = FALSE
          /\ Cardinality(Children(w, r.id)) = 4
          /\ \E t \in Children(w, r.id) :
                t.bundle = "TextBundle" /\ t.text = "Bevy Simple Menu"
          /\ \A item \in MenuItem :
                \E b \in Children(w, r.id) : IsButton(w, b, item, item)

\* w holds exactly one controls menu, with exactly one Back button.
ControlMenuBuilt(w) ==
    /\ Cardinality(ControlMenuRoots(w)) = 1
    /\ Cardinality({e \in w : e.tag = "BackButton"}) = 1
    /\ \A r \in {e \in w : e.tag = "ControlMenu"} :
          /\ r.parent = 0 /\ r.is_visible = FALSE
          /\ Cardinality(Children(w, r.id)) = 2
          /\ \E b \in Children(w, r.id) : IsButton(w, b, "BackButton", "Back")

\* Nothing but the camera is left in w.
OnlyCamera(w) == \A e \in w : e.bundle = "UiCameraBundle"

\* Nothing of the main menu is left in w.
MainMenuTornDown(w) ==
    \A e \in w : /\ e.tag \notin {"MainMenu"} \cup MenuItem
                 /\ e.text \notin {"Bevy Simple Menu", "Play", "Controls", "Exit"}

\* Nothing of the controls menu is left in w.
ControlMenuTornDown(w) ==
    \A e \in w : /\ e.tag \notin {"ControlMenu", "BackButton"}
                 /\ e.text \notin {ControlsText, "Back"}

\* The scene graph with the entity ids abstracted away: every entity as its
\* components and the tag and text of its parent.
Scene(w) ==
    {<<e.bundle, e.tag, e.text, e.interaction, e.is_visible,
       {<<q.tag, q.text>> : q \in {x \in w : x.id = e.parent}}>> : e \in w}

\* The scene graph the start-up leaves.
InitialScene == Scene(StartupResult(main).world)

Range(q) == {q[i] : i \in DOMAIN q}

\* C1: whatever pushes and pops are made from the stack [MainMenu], the
\* stack is never empty (MainMenu stays at its bottom), and a pop made on a
\* stack of one state fails with EmptyStackError and leaves the stack, and
\* the scene, as they were.
C1_StackNeverEmpty ==
    [][/\ Len(stack) >= 1
       /\ Len(stack') >= 1
       /\ stack'[1] = "MainMenu"
       /\ (Len(stack) = 1 /\ lastOp' = "pop")
             => /\ error' = "EmptyStackError"
                /\ stack' = stack
                /\ stack' = <<"MainMenu">>
                /\ world' = world
                /\ fired' = <<>>]_vars

\* C1 witness: a pop made on the stack [MainMenu] has failed.
C1_Witness ==
    /\ stack = <<"MainMenu">>
    /\ lastOp = "pop"
    /\ error = "EmptyStackError"

C3_ControlsClick ==
    [][(/\ pc = "update"
        /\ stack = <<"MainMenu">>
        /\ MainMenuBuilt(world)
        /\ ClickedTags(world) = {"Controls"})
          => /\ stack' = <<"MainMenu", "ControlMenu">>
             /\ fired' = << <<"on_pause", "MainMenu">>, <<"on_enter", "ControlMenu">> >>
             /\ MainMenuTornDown(world')
             /\ ControlMenuBuilt(world')
             /\ ~panicked']_vars

C3_Witness ==
    /\ stack = <<"MainMenu", "ControlMenu">>
    /\ fired = << <<"on_pause", "MainMenu">>, <<"on_enter", "ControlMenu">> >>
    /\ ControlMenuBuilt(world)
    /\ MainMenuTornDown(world)

\* C4: with the stack [MainMenu, ControlMenu], a click on Back gives the
\* stack [MainMenu]; the exit of ControlMenu tore the controls menu down and
\* the resume of MainMenu rebuilt the main menu with its three buttons, so
\* the stack and the scene are those the start-up left.
C4_BackClick ==
    [][(/\ pc = "update"
        /\ stack = <<"MainMenu", "ControlMenu">>
        /\ ClickedTags(world) = {"BackButton"})
          => /\ stack' = <<"MainMenu">>
             /\ fired' = << <<"on_exit", "ControlMenu">>, <<"on_resume", "MainMenu">> >>
             /\ ControlMenuTornDown(world')
             /\ MainMenuBuilt(world')
             /\ Scene(world') = InitialScene
             /\ ~panicked']_vars

C4_Witness ==
    /\ stack = <<"MainMenu">>
    /\ fired = << <<"on_exit", "ControlMenu">>, <<"on_resume", "MainMenu">> >>
    /\ MainMenuBuilt(world)
    /\ Scene(world) = InitialScene

\* C5: with the stack [MainMenu], a click on Play gives the stack
\* [MainMenu, MainGame]; the pause of MainMenu tore the main menu down and
\* the enter of MainGame built nothing.
C5_PlayClick ==
    [][(/\ pc = "update"
        /\ stack = <<"MainMenu">>
        /\ ClickedTags(world) = {"Play"})
          => /\ stack' = <<"MainMenu", "MainGame">>
             /\ fired' = << <<"on_pause", "MainMenu">>, <<"on_enter", "MainGame">> >>
             /\ MainMenuTornDown(world')
             /\ OnlyCamera(world')
             /\ ~panicked']_vars

C5_Witness ==
    /\ stack = <<"MainMenu", "MainGame">>
    /\ fired = << <<"on_pause", "MainMenu">>, <<"on_enter", "MainGame">> >>
    /\ OnlyCamera(world)

\* C6: with the stack [MainMenu], a click on Exit sends exactly one AppExit
\* and leaves the stack and the main menu as they were.
C6_ExitClick ==
    [][(/\ pc = "update"
        /\ stack = <<"MainMenu">>
        /\ ClickedTags(world) = {"Exit"})
          => /\ app_exit_events' = app_exit_events + 1
             /\ app_exit_events' = 1
             /\ stack' = stack
             /\ world' = world
             /\ fired' = <<>>
             /\ ~panicked']_vars

C6_Witness ==
    /\ app_exit_events = 1
    /\ stack = <<"MainMenu">>
    /\ MainMenuBuilt(world)
    /\ ClickedTags(world) = {"Exit"}

\* The states pushed for the Clicked buttons among `tags`, in that order.
RECURSIVE PushesFor(_, _)
PushesFor(tags, clicked) ==
    IF tags = <<>> THEN <<>>
    ELSE (IF Head(tags) \in clicked /\ Head(tags) = "Play" THEN <<"MainGame">>
          ELSE IF Head(tags) \in clicked /\ Head(tags) = "Controls" THEN <<"ControlMenu">>
          ELSE <<>>) \o PushesFor(Tail(tags), clicked)

\* C7: when several main menu buttons are Clicked in one frame, the handler
\* visits every button and carries out the action of every Clicked one, in
\* iteration order: a push for Play, a push for Controls, one AppExit for
\* Exit, and no click makes the handling of another fail.
C7_EveryClickHandled ==
    [][(/\ pc = "update"
        /\ Top(stack) = "MainMenu")
          => LET clicked == ClickedTags(world) \cap MenuItem
             IN  /\ ~panicked'
                 /\ Range(visited') = MenuItem /\ Len(visited') = 3
                 /\ stack' = stack \o PushesFor(visited', clicked)
                 /\ Len(stack') = Len(stack) + Cardinality(clicked \cap {"Play", "Controls"})
                 /\ app_exit_events' =
                       app_exit_events + (IF "Exit" \in clicked THEN 1 ELSE 0)]_vars

\* C7 witness: the three buttons were Clicked in one frame: two pushes and
\* one AppExit.
C7_Witness ==
    /\ Len(stack) = 3
    /\ ClickedTags(world) = {}
    /\ app_exit_events = 1
    /\ frame = 1
    /\ ~panicked

C10_MainGameAbsorbing ==
    [][stack = <<"MainMenu", "MainGame">>
          => /\ stack' = <<"MainMenu", "MainGame">>
             /\ fired' = <<>> \/ fired' = fired
             /\ OnlyCamera(world')
             /\ live' = {"MainGame"}]_vars

\* C10 witness: frames have gone by in MainGame and the last update ran no
\* transition.
C10_Witness ==
    /\ stack = <<"MainMenu", "MainGame">>
    /\ frame >= 3
    /\ pc = "focus"
    /\ fired = <<>>

====
